---- MODULE Spec2Model ----
(***************************************************************************)
(* Queue worker of Piero-Dev-Email-sender.                                 *)
(*                                                                         *)
(* Modelled sources:                                                       *)
(*   src/Iteracion/SEGUNDA PARTE/016-comentarios al worker.py   (worker)   *)
(*   src/Iteracion/SEGUNDA PARTE/010- programamos envio o envio            *)
(*       inmediato.py                      (sender module the worker loads)*)
(*   src/Version Final/pierodev_email_sender.py   (final sender, enqueue)  *)
(*                                                                         *)
(* Time is an integer number of clock units.  A datetime is a record       *)
(* [tz, wall, off]: tz says whether it is timezone-aware, wall is its      *)
(* wall-clock reading and off its UTC offset (0 when naive).  A stored     *)
(* timestamp string is a record [fmt, wall, off].                          *)
(***************************************************************************)
EXTENDS Integers, Sequences, FiniteSets, TLC

VARIABLES
    clock,      \* real time (UTC instant), read by now_local
    cfg,        \* the loaded configuration / installation, fixed at start
    disk,       \* queue.json: the persisted sequence of jobs
    stored,     \* whether the file queue.json exists
    mem,        \* the worker's in-memory `jobs` list of the running tick
    pc,         \* worker position: "sleep", "loop", "save", "end", "crashed"
    idx,        \* position of the for-loop over `jobs`
    now_dt,     \* now_dt captured at the start of the tick
    changed,    \* the tick's `changed` flag
    tickNo,     \* number of ticks started so far (history)
    log,        \* history of delivery attempts (calls of send_job)
    skipped,    \* keys of the jobs the latest tick passed as not yet due (history)
    nextKey,    \* next creation serial number (history, identifies a job)
    crashes,    \* the deaths of the worker process so far (history)
    rr_file,    \* templates_state.json: the rotation state file
    th_calls,   \* resolve_theme taken alone: the calls made so far (history)
    files,      \* save taken alone: the files, by name
    saves,      \* save taken alone: the calls made so far (history)
    ids,        \* new_job_id taken alone: the ids given out so far
    email_cfg,  \* send_job taken alone: cfg["email"], its subject and html_template
    sj_calls,   \* send_job taken alone: the calls made so far (history)
    op,         \* schedule_only taken step by step: the operator's run
    due_job,    \* is_due taken alone: its first argument
    due_now,    \* is_due taken alone: its second argument
    due_res     \* is_due taken alone: its result, "none" before the call

vars == <<clock, cfg, disk, stored, mem, pc, idx, now_dt, changed, tickNo, log,
          skipped, nextKey, crashes, rr_file, th_calls, files, saves, ids, email_cfg,
          sj_calls, op, due_job, due_now, due_res>>

\* the variables of the worker, and those of is_due taken alone
worker_vars == <<clock, cfg, disk, stored, mem, pc, idx, now_dt, changed, tickNo,
                 log, skipped, nextKey, crashes>>
due_vars == <<due_job, due_now, due_res>>

\* the variables of the operations taken alone
alone_vars == <<due_vars, th_calls, files, saves, ids, email_cfg, sj_calls, op>>

----------------------------------------------------------------------------
(* Bounds of the model *)

MaxTime == 8
MaxJobs == 2
MaxHandWritten == 1

(* Configuration values of the app section.  max_retries is the code's     *)
(* default; the durations are small values of the same kind, in clock       *)
(* units, chosen so that a retried job is met both before and after its     *)
(* new due time.                                                            *)

MaxRetries == 2
RetryDelay == 3
RateLimit == 1
TickSeconds == 1
ZoneOff == 1
DtMaxWall == 99

----------------------------------------------------------------------------
(* Datetimes and their stored form *)

NoneDt == [tz |-> FALSE, wall |-> -1, off |-> 0]

datetime_max == [tz |-> FALSE, wall |-> DtMaxWall, off |-> 0]

Absent == [fmt |-> "absent", wall |-> 0, off |-> 0]

Instant(dt) == dt.wall - dt.off

\* datetime.replace(tzinfo=None)
replace_tzinfo_None(dt) == [tz |-> FALSE, wall |-> dt.wall, off |-> 0]

\* Python's  a <= b  on datetimes: TypeError when exactly one is aware
PyLe(a, b) ==
    IF a.tz # b.tz THEN "TypeError"
    ELSE IF Instant(a) <= Instant(b) THEN "True" ELSE "False"

\* Python's  a < b  on datetimes
PyLt(a, b) ==
    IF a.tz # b.tz THEN "TypeError"
    ELSE IF Instant(a) < Instant(b) THEN "True" ELSE "False"

\* datetime.isoformat()
isoformat(dt) ==
    IF dt.tz THEN [fmt |-> "iso_off", wall |-> dt.wall, off |-> dt.off]
    ELSE [fmt |-> "iso", wall |-> dt.wall, off |-> 0]

\* dt + timedelta(seconds=s)
plus_seconds(dt, s) == [dt EXCEPT !.wall = dt.wall + s]

parse_job_dt(raw) ==
    CASE raw.fmt \in {"absent", "empty"} -> NoneDt
      [] raw.fmt = "iso_off" -> [tz |-> TRUE, wall |-> raw.wall, off |-> raw.off]
      [] raw.fmt = "iso" -> [tz |-> FALSE, wall |-> raw.wall, off |-> 0]
      [] raw.fmt = "simple" -> [tz |-> FALSE, wall |-> raw.wall, off |-> 0]
      [] OTHER -> NoneDt

\* is_due without the mixed aware/naive branches
is_due_direct(job_dt, now) == PyLe(job_dt, now)

\* is_due with the comparison turned round (now <= job_dt)
is_due_reversed(job_dt, now) ==
    IF ~job_dt.tz /\ now.tz THEN PyLe(replace_tzinfo_None(now), job_dt)
    ELSE IF job_dt.tz /\ ~now.tz THEN PyLe(now, replace_tzinfo_None(job_dt))
    ELSE PyLe(now, job_dt)

is_due(job_dt, now) ==
    IF ~job_dt.tz /\ now.tz THEN PyLe(job_dt, replace_tzinfo_None(now))
    ELSE IF job_dt.tz /\ ~now.tz THEN PyLe(replace_tzinfo_None(job_dt), now)
    ELSE PyLe(job_dt, now)

\* now_local(cfg) read when the real time is t
now_local(c, t) ==
    IF c.tz THEN [tz |-> TRUE, wall |-> t + ZoneOff, off |-> ZoneOff]
    ELSE [tz |-> FALSE, wall |-> t + ZoneOff, off |-> 0]

----------------------------------------------------------------------------
(* Jobs *)

\* str.strip() on the recipient values of the model
strip(s) ==
    CASE s = " " -> ""
      [] s = " A@x.com " -> "A@x.com"
      [] OTHER -> s

\* str.lower() on the recipient values of the model
lower(s) == IF s = "A@x.com" THEN "a@x.com" ELSE s

\* the pending filter left out
IsPending_any(job) == TRUE

\* worker loop, pending filter: job.get("status", "pending") != "pending"
IsPending(job) == job.status = "pending"

Terminal(job) == job.status \in {"sent", "failed"}

\* the recipient taken without strip()
to_addr_nostrip(job) == job.to

\* worker loop 3.1: to_addr = (job.get("to") or "").strip()
to_addr(job) == strip(job.to)
\* the job rejected for its recipient with no reason written
reject_to_no_reason(job) == [job EXCEPT !.status = "failed"]

\* worker loop 3.1: the job is rejected for its recipient
reject_to(job) ==
    [job EXCEPT !.status = "failed", !.last_error = "Missing 'to'"]

\* worker loop 3.2: the job is rejected for its scheduled_for
reject_scheduled_for(job) ==
    [job EXCEPT !.status = "failed", !.last_error = "Invalid 'scheduled_for'"]
\* the success branch also putting the attempt counter back to 0
mark_sent_reset(job, now) ==
    [job EXCEPT !.status = "sent", !.sent_at = isoformat(now), !.last_error = "",
                !.attempts = 0]

\* the success branch also counting the attempt
mark_sent_counted(job, now) ==
    [job EXCEPT !.status = "sent", !.sent_at = isoformat(now), !.last_error = "",
                !.attempts = job.attempts + 1]

\* worker loop, success branch; now is now_local(cfg) read at that moment
mark_sent(job, now) ==
    [job EXCEPT !.status = "sent", !.sent_at = isoformat(now), !.last_error = ""]

\* bump_retry giving up one attempt early (>= for >)
bump_retry_early(job, err, now) ==
    LET attempts == job.attempts + 1
        j1 == [job EXCEPT !.attempts = attempts, !.last_error = err]
    IN  IF attempts >= MaxRetries
        THEN [j1 EXCEPT !.status = "failed", !.failed_at = isoformat(now)]
        ELSE [j1 EXCEPT !.scheduled_for = isoformat(plus_seconds(now, RetryDelay)),
                        !.status = "pending"]

\* bump_retry without the exhaustion branch
bump_retry_forever(job, err, now) ==
    [job EXCEPT !.attempts = job.attempts + 1, !.last_error = err,
                !.scheduled_for = isoformat(plus_seconds(now, RetryDelay)),
                !.status = "pending"]

\* bump_retry rescheduling at now, the delay left out
bump_retry_no_delay(job, err, now) ==
    LET attempts == job.attempts + 1
        j1 == [job EXCEPT !.attempts = attempts, !.last_error = err]
    IN  IF attempts > MaxRetries
        THEN [j1 EXCEPT !.status = "failed", !.failed_at = isoformat(now)]
        ELSE [j1 EXCEPT !.scheduled_for = isoformat(now), !.status = "pending"]

\* bump_retry with the delay taken off instead of added
bump_retry_backward(job, err, now) ==
    LET attempts == job.attempts + 1
        j1 == [job EXCEPT !.attempts = attempts, !.last_error = err]
    IN  IF attempts > MaxRetries
        THEN [j1 EXCEPT !.status = "failed", !.failed_at = isoformat(now)]
        ELSE [j1 EXCEPT !.scheduled_for = isoformat(plus_seconds(now, 0 - RetryDelay)),
                        !.status = "pending"]

bump_retry(job, err, now) ==
    LET attempts == job.attempts + 1
        j1 == [job EXCEPT !.attempts = attempts, !.last_error = err]
    IN  IF attempts > MaxRetries
        THEN [j1 EXCEPT !.status = "failed", !.failed_at = isoformat(now)]
        ELSE [j1 EXCEPT !.scheduled_for =
                            isoformat(plus_seconds(now, cfg.retry_delay)),
                        !.status = "pending"]
\* the except branch applying the retry policy to every pending job of the list
try_send_spill(jobs, i, out, t) ==
    IF out.ok THEN [jobs EXCEPT ![i] = mark_sent(jobs[i], t)]
    ELSE [j \in 1..Len(jobs) |->
             IF IsPending(jobs[j]) THEN bump_retry(jobs[j], out.err, t)
             ELSE jobs[j]]

\* worker loop, try/except around send_job for the job at position i: out is
\* what send_job did, t the now_local read afterwards
try_send(jobs, i, out, t) ==
    [jobs EXCEPT ![i] = IF out.ok THEN mark_sent(jobs[i], t)
                        ELSE bump_retry(jobs[i], out.err, t)]

\* job_sort_key(j): dt or datetime.max
job_sort_key(j) ==
    LET dt == parse_job_dt(j.scheduled_for)
    IN  IF dt = NoneDt THEN datetime_max ELSE dt

\* list.sort raises as soon as two keys it compares are not comparable; a
\* comparison sort of two or more keys of both kinds compares such a pair
sort_raises(jobs) ==
    \E i, j \in 1..Len(jobs) :
        PyLt(job_sort_key(jobs[i]), job_sort_key(jobs[j])) = "TypeError"

RECURSIVE insert_stable(_, _)
insert_stable(s, j) ==
    IF s = <<>> THEN <<j>>
    ELSE IF PyLt(job_sort_key(j), job_sort_key(s[Len(s)])) = "True"
         THEN Append(insert_stable(SubSeq(s, 1, Len(s) - 1), j), s[Len(s)])
         ELSE Append(s, j)

RECURSIVE sorted_stable(_)
sorted_stable(s) ==
    IF s = <<>> THEN <<>>
    ELSE insert_stable(sorted_stable(SubSeq(s, 1, Len(s) - 1)), s[Len(s)])

\* the list left in stored order
jobs_sort_skipped(jobs) == [raised |-> FALSE, jobs |-> jobs]

\* jobs.sort(key=job_sort_key): the sorted list, or the TypeError it raises
jobs_sort(jobs) ==
    IF sort_raises(jobs) THEN [raised |-> TRUE, jobs |-> jobs]
    ELSE [raised |-> FALSE, jobs |-> sorted_stable(jobs)]

----------------------------------------------------------------------------
(* Themes and the rotation state file *)

MaxThemes == 2
MaxCursor == 3

\* Python's None where a theme index is expected
NoneIdx == -1

\* values a job's theme_index may hold: None, a negative number, an index,
\* or a number past the end of the themes list
Overrides == {NoneIdx, -2} \cup (0..MaxThemes)

\* int(hashlib.sha256(base.encode("utf-8")).hexdigest(), 16) for the
\* recipients of the model, kept modulo 60 (which leaves the remainder
\* modulo 1..6 as it is)
sha256_int(base) ==
    CASE base = "a@x.com" -> 13
      [] base = "b@x.com" -> 37
      [] base = "A@x.com" -> 38
      [] OTHER -> 0

\* random.randrange(n) when the generator's draw is r
randrange(n, r) == r % n

\* the draws that make a difference to a selection under configuration c
Draws(c) ==
    IF c.enabled /\ c.themes > 0 /\ c.strategy = "random"
    THEN 0..(c.themes - 1) ELSE {0}

\* the rotation state file: missing, not readable as JSON, or {"rr_next": n}
StateFiles ==
    { [kind |-> "absent", rr_next |-> 0], [kind |-> "corrupt", rr_next |-> 0] }
        \cup [kind : {"dict"}, rr_next : 0..MaxCursor]

\* load_templates_state(cfg)["rr_next"]
load_templates_state(f) == IF f.kind = "dict" THEN f.rr_next ELSE 0

\* save_templates_state(cfg, st) with st["rr_next"] = n
save_templates_state(n) == [kind |-> "dict", rr_next |-> n]

\* the recipient hashed as it is written, letter case kept
recipient_base_nolower(recipient) == strip(recipient)

\* pick_theme_index, by_recipient: base = (recipient or "").strip().lower()
recipient_base(recipient) == lower(strip(recipient))

\* round robin that does not write the state file back
pick_theme_index_no_save(c, recipient, f, r) ==
    [idx |-> load_templates_state(f) % c.themes, file |-> f]

\* pick_theme_index(cfg, recipient): the index and the state file it leaves
pick_theme_index(c, recipient, f, r) ==
    LET n == c.themes
    IN  IF n = 0 THEN [idx |-> 0, file |-> f]
        ELSE IF c.strategy = "random"
        THEN [idx |-> randrange(n, r), file |-> f]
        ELSE IF c.strategy = "by_recipient"
        THEN IF recipient_base(recipient) = ""
             THEN [idx |-> 0, file |-> f]
             ELSE [idx |-> sha256_int(recipient_base(recipient)) % n, file |-> f]
        ELSE LET i == load_templates_state(f) % n
             IN  [idx |-> i, file |-> save_templates_state((i + 1) % n)]

\* resolve_theme with the override left unread
resolve_theme_no_override(c, recipient, override, f, r) ==
    IF ~c.enabled \/ c.themes = 0
    THEN [idx |-> NoneIdx, file |-> f, picked |-> FALSE]
    ELSE LET p == pick_theme_index(c, recipient, f, r)
         IN  [idx |-> p.idx, file |-> p.file, picked |-> TRUE]
\* resolve_theme without the two early returns
resolve_theme_always(c, recipient, override, f, r) ==
    IF override # NoneIdx /\ 0 <= override /\ override < c.themes
    THEN [idx |-> override, file |-> f, picked |-> FALSE]
    ELSE LET p == pick_theme_index(c, recipient, f, r)
         IN  [idx |-> p.idx, file |-> p.file, picked |-> TRUE]

\* resolve_theme(cfg, recipient, theme_index_override): the index, the state
\* file it leaves, and whether pick_theme_index ran
resolve_theme(c, recipient, override, f, r) ==
    IF ~c.enabled \/ c.themes = 0
    THEN [idx |-> NoneIdx, file |-> f, picked |-> FALSE]
    ELSE IF override # NoneIdx /\ 0 <= override /\ override < c.themes
    THEN [idx |-> override, file |-> f, picked |-> FALSE]
    ELSE LET p == pick_theme_index(c, recipient, f, r)
         IN  [idx |-> p.idx, file |-> p.file, picked |-> TRUE]

\* what a job's theme_index may hold in the queue file: null, an integer, a
\* string of digits ("1"), a number with a fraction (1.5, val is its whole
\* part), or something int() does not take ("abc", a list)
JsonOverrides ==
    { [type |-> "null", val |-> 0], [type |-> "junk", val |-> 0],
      [type |-> "str", val |-> 1], [type |-> "float", val |-> 1] }
        \cup [type : {"int"}, val : {-2, 0, MaxThemes}]

\* int(theme_index_override): raises for what is no number, parses a string
\* of digits, cuts the fraction of a float
py_int(v) ==
    IF v.type = "junk" THEN [raised |-> TRUE, val |-> 0]
    ELSE [raised |-> FALSE, val |-> v.val]

\* resolve_theme taking integers only as an override
resolve_theme_json_strict(c, recipient, v, f, r) ==
    resolve_theme(c, recipient, IF v.type = "int" THEN v.val ELSE NoneIdx, f, r)

\* resolve_theme on the value as the queue file holds it: the
\* `is not None` test, int() inside try/except, then the range test
resolve_theme_json(c, recipient, v, f, r) ==
    IF v.type = "null" \/ py_int(v).raised
    THEN resolve_theme(c, recipient, NoneIdx, f, r)
    ELSE resolve_theme(c, recipient, py_int(v).val, f, r)

\* The sender module's create_message_for_recipient is called by send_job
\* with the keyword theme_index_override.  The module at SENDER_SCRIPT (script
\* 010) defines it with the parameters (cfg, recipient) only, so the call
\* raises TypeError; the final sender defines the third parameter.
composer_takes_override(c) == c.sender # "010"

\* create_message_for_recipient(cfg, recipient, theme_index_override=...):
\* raises, or composes the message with the theme resolve_theme returns
create_message_for_recipient(c, recipient, override, f, r) ==
    IF ~composer_takes_override(c)
    THEN [raised |-> TRUE, idx |-> NoneIdx, file |-> f]
    ELSE LET th == resolve_theme(c, recipient, override, f, r)
         IN  [raised |-> FALSE, idx |-> th.idx, file |-> th.file]

\* what the SMTP server does with the message handed to it
Gateway == {"accept", "reject"}

\* the server's part in one call of send_job: "none" when the call raises
\* before a message exists, so that no server is contacted
GatewayFor(c) ==
    IF ~composer_takes_override(c) THEN {"none"} ELSE Gateway

\* send_job: returns (ok) or raises (err is str(e)); theme is the index the
\* message was composed with and file the rotation state file it leaves.
\* With gw = "unlogged" the server accepts the message and log_email_result
\* raises after it (Path.mkdir of the log directory, outside its try).
send_job(c, recipient, override, gw, f, r) ==
    LET m == create_message_for_recipient(c, recipient, override, f, r)
    IN  IF m.raised
        THEN [ok |-> FALSE, err |-> "TypeError", theme |-> NoneIdx, file |-> f]
        ELSE IF gw = "accept"
        THEN [ok |-> TRUE, err |-> "", theme |-> m.idx, file |-> m.file]
        ELSE IF gw = "unlogged"
        THEN [ok |-> FALSE, err |-> "OSError", theme |-> m.idx, file |-> m.file]
        ELSE [ok |-> FALSE, err |-> "SMTPException", theme |-> m.idx,
              file |-> m.file]

\* how long a call of send_job may take
Latencies == {0, 1}

\* a key that cfg["email"] does not hold, and a job that carries no override
\* (job.get("subject") or None)
NoKey == "<no key>"

NoOverride == "<None>"

\* cfg["email"] when send_job is taken alone nowhere
NoEmailCfg == [subject |-> NoKey, html_template |-> NoKey]

\* dict.get(key, "")
get_or_empty(v) == IF v = NoKey THEN "" ELSE v

\* send_job, lines 257-264: the overrides written over the defaults
apply_overrides(e, so, to) ==
    [subject |-> IF so # NoOverride THEN so ELSE e.subject,
     html_template |-> IF to # NoOverride THEN to ELSE e.html_template]

\* send_job, lines 258-259 and the finally clause 306-309: what cfg["email"]
\* holds once the call is over, whether it returned or raised
restore(e, so, to) ==
    [subject |-> get_or_empty(e.subject),
     html_template |-> get_or_empty(e.html_template)]

----------------------------------------------------------------------------
(* Files: the queue file, the rotation state file and their temporaries *)

Paths == {"queue.json", "templates_state.json"}

AllPaths == Paths \cup {"queue.tmp", "templates_state.tmp"}
\* JSON values as they stand in the text of a file; an object has no member
\* for a key the dict does not hold
JsonMissing == [t |-> "missing", v |-> <<>>]

JsonNull == [t |-> "null", v |-> <<>>]

JsonNumber(n) == [t |-> "number", v |-> <<n>>]

JsonString(s) == [t |-> "string", v |-> <<s>>]

\* None written as the number 0
to_json_none_as_0(f, x) ==
    CASE f \in {"scheduled_for", "sent_at", "failed_at"} ->
            IF x = Absent THEN JsonMissing ELSE JsonString(x)
      [] f = "theme_index" -> JsonNumber(IF x = NoneIdx THEN 0 ELSE x)
      [] f \in {"key", "attempts", "rr_next"} -> JsonNumber(x)
      [] OTHER -> JsonString(x)

\* json.dump, one member f of an object: str as a string, int as a number,
\* None as null
to_json(f, x) ==
    CASE f \in {"scheduled_for", "sent_at", "failed_at"} ->
            IF x = Absent THEN JsonMissing ELSE JsonString(x)
      [] f = "theme_index" -> IF x = NoneIdx THEN JsonNull ELSE JsonNumber(x)
      [] f \in {"key", "attempts", "rr_next"} -> JsonNumber(x)
      [] OTHER -> JsonString(x)

\* json.load, one member of an object
from_json(tok) ==
    CASE tok.t = "missing" -> Absent
      [] tok.t = "null" -> NoneIdx
      [] OTHER -> tok.v[1]

\* json.dump of a list of dicts: the members in order, each with its keys
json_dumps(data) ==
    [i \in 1..Len(data) |-> [f \in DOMAIN data[i] |-> to_json(f, data[i][f])]]

\* json.load of that text
json_loads(text) ==
    [i \in 1..Len(text) |-> [f \in DOMAIN text[i] |-> from_json(text[i][f])]]

\* a file is missing, holds the whole JSON text of data, or holds a text cut
\* short (from nothing written yet to all but the end)
AbsentFile == [kind |-> "absent", data |-> <<>>]

FullOf(data) == [kind |-> "full", data |-> json_dumps(data)]

CutShort == [kind |-> "partial", data |-> <<>>]

\* the temporary is the file itself
with_suffix_tmp_same(p) == p

\* Path.with_suffix(".tmp")
with_suffix_tmp(p) ==
    CASE p = "queue.json" -> "queue.tmp"
      [] p = "templates_state.json" -> "templates_state.tmp"
      [] OTHER -> p

\* open(p, "w"): the file is created or emptied, and json.dump starts writing
open_w(fs, p) == [fs EXCEPT ![p] = CutShort]

\* json.dump(data, f) run to its end and the file closed
json_dump(fs, p, data) == [fs EXCEPT ![p] = FullOf(data)]

\* Path.replace(target): one rename
replace(fs, src, dst) ==
    IF src = dst THEN fs ELSE [fs EXCEPT ![dst] = fs[src], ![src] = AbsentFile]

\* how far a save gets before the process dies; "replaced" is a save that
\* returns
Stages == {"start", "opened", "dumped", "replaced"}

\* save_queue / save_templates_state of data at path p, as far as stage
save_file(fs, p, data, stage) ==
    LET tmp == with_suffix_tmp(p)
        f1 == open_w(fs, tmp)
        f2 == json_dump(f1, tmp, data)
        f3 == replace(f2, tmp, p)
    IN  CASE stage = "start" -> fs
          [] stage = "opened" -> f1
          [] stage = "dumped" -> f2
          [] OTHER -> f3

\* load_queue / load_templates_state up to json.load: whether the file
\* exists, whether json.load raises, and the data read
json_load(fs, p) ==
    IF fs[p].kind = "absent" THEN [exists |-> FALSE, raised |-> FALSE, data |-> <<>>]
    ELSE IF fs[p].kind = "partial"
    THEN [exists |-> TRUE, raised |-> TRUE, data |-> <<>>]
    ELSE [exists |-> TRUE, raised |-> FALSE, data |-> json_loads(fs[p].data)]

\* the files when the queue file holds the jobs d
QueueFs(d) ==
    [p \in AllPaths |-> IF p = "queue.json" THEN FullOf(d) ELSE AbsentFile]
\* load_queue without the check that the file exists: open raises
load_queue_unchecked(st, d) == [raised |-> ~st, jobs |-> d]

\* load_queue, with q.get("jobs", []): {"jobs": []} when the file is missing
\* (st false), and otherwise d, what json.load reads from it
load_queue(st, d) ==
    IF ~st THEN [raised |-> FALSE, jobs |-> <<>>]
    ELSE [raised |-> FALSE, jobs |-> d]

\* save_queue(qp, {"jobs": jobs}) that returns, on a queue file holding d:
\* the jobs a load reads afterwards
save_queue(d, jobs) ==
    json_load(save_file(QueueFs(d), "queue.json", jobs, "replaced"),
              "queue.json").data

\* the save after an attempt left to the end of the tick
save_after_attempt_deferred(d, jobs) == d
\* the save after an attempt writing the pending jobs only
save_after_attempt_purged(d, jobs) == save_queue(d, SelectSeq(jobs, IsPending))

\* worker loop, right after each attempt: save_queue(qp, {"jobs": jobs})
save_after_attempt(d, jobs) == save_queue(d, jobs)

----------------------------------------------------------------------------
(* The queue file as found at start, and what schedule_only writes *)

HandTo == {"", " ", "a@x.com"}

HandScheduledFor ==
    { [fmt |-> "empty", wall |-> 0, off |-> 0],
      [fmt |-> "junk", wall |-> 0, off |-> 0],
      [fmt |-> "simple", wall |-> 2, off |-> 0],
      [fmt |-> "iso_off", wall |-> 3, off |-> 2] }

EnqueueWalls == {1, 3}

Recipients == <<"a@x.com", "b@x.com">>

\* what random.randint(1000, 9999) may return
RandIds == {1000, 1001}

\* new_job_id(): job_<local time to the second>_<random number>
new_job_id(t, rnd) == [ts |-> t + ZoneOff, rnd |-> rnd]

\* the job written without the theme chosen for it
new_job_no_theme(k, to, sched, theme) ==
    [key |-> k, to |-> to, scheduled_for |-> sched,
     status |-> "pending", theme_index |-> NoneIdx,
     attempts |-> 0, last_error |-> "", sent_at |-> Absent, failed_at |-> Absent]

\* the fields of a job the worker reads or writes; key is its identity
new_job(k, to, sched, theme) ==
    [key |-> k, to |-> to, scheduled_for |-> sched,
     status |-> "pending", theme_index |-> theme,
     attempts |-> 0, last_error |-> "", sent_at |-> Absent, failed_at |-> Absent]

\* parse_scheduled_for(cfg): "YYYY-MM-DD HH:MM" -> ISO, with tzinfo if available
parse_scheduled_for(c, w) ==
    isoformat(IF c.tz THEN [tz |-> TRUE, wall |-> w, off |-> ZoneOff]
              ELSE [tz |-> FALSE, wall |-> w, off |-> 0])

RECURSIVE schedule_loop(_, _, _, _, _)
\* schedule_only, the for-loop over the first k recipients: the jobs built
\* and the rotation state file left.  in holds what the call read before the
\* loop and the random draws made in it.
schedule_loop(c, k, in, jobs, f) ==
    IF k = 0 THEN [jobs |-> jobs, file |-> f]
    ELSE LET prev == schedule_loop(c, k - 1, in, jobs, f)
             th == resolve_theme(c, Recipients[k], NoneIdx, prev.file, in.draws[k])
             job == new_job(in.key + k - 1, Recipients[k], in.sched, th.idx)
         IN  [jobs |-> Append(prev.jobs, job), file |-> th.file]

\* schedule_only, one pass of the for-loop, for recipient number i: the job
\* appended and the rotation state file left
schedule_step(c, i, key, sched, jobs, f, r) ==
    LET th == resolve_theme(c, Recipients[i], NoneIdx, f, r)
    IN  [jobs |-> Append(jobs, new_job(key, Recipients[i], sched, th.idx)),
         file |-> th.file]

\* the for-loop of schedule_only saving the list after each recipient
store_after_step_eager(d, jobs) == save_queue(d, jobs)

\* schedule_only, one pass of the for-loop: the store is not written, the
\* job is appended to the list in memory only
store_after_step(d, jobs) == d

\* schedule_only appending to the list the store holds when it saves
enqueue_base_reloaded(loaded, current) == current

\* schedule_only: the list the new jobs are appended to is the one load_queue
\* returned at the start of the call, whatever the store holds later
enqueue_base(loaded, current) == loaded

\* no run of schedule_only in progress, none made
NoOp ==
    [pc |-> "idle", jobs |-> <<>>, base |-> 0, n |-> 0, k |-> 0,
     sched |-> Absent, file0 |-> [kind |-> "absent", rr_next |-> 0],
     reverted |-> {}, last |-> "none"]

HandWrittenStores ==
    UNION { [1..n -> HandTo \X HandScheduledFor] : n \in 0..MaxHandWritten }

----------------------------------------------------------------------------
(* State machine *)

\* the state after construction, app.retry_delay_seconds being one of delays
InitOn(delays) ==
    /\ clock = 0
    /\ cfg \in [tz : BOOLEAN, sender : {"010", "final"}, enabled : {TRUE},
                 themes : {MaxThemes}, strategy : {"round_robin"},
                 retry_delay : delays]
    /\ \E h \in HandWrittenStores :
          /\ disk = [i \in 1..Len(h) |->
                        new_job(i, h[i][1], h[i][2], NoneIdx)]
          /\ stored \in (IF h = <<>> THEN BOOLEAN ELSE {TRUE})
          /\ nextKey = Len(h) + 1
    /\ rr_file = [kind |-> "absent", rr_next |-> 0]
    /\ th_calls = <<>>
    /\ mem = <<>>
    /\ pc = "sleep"
    /\ idx = 0
    /\ now_dt = NoneDt
    /\ changed = FALSE
    /\ tickNo = 0
    /\ log = <<>>
    /\ skipped = {}
    /\ crashes = <<>>
    /\ due_job = NoneDt
    /\ due_now = NoneDt
    /\ due_res = "none"
    /\ files = [p \in AllPaths |-> AbsentFile]
    /\ saves = <<>>
    /\ ids = <<>>
    /\ email_cfg = NoEmailCfg
    /\ sj_calls = <<>>
    /\ op = NoOp

Init == InitOn({RetryDelay})

\* worker loop, top of `while True`: load, now_dt, sort
TickStart ==
    /\ pc = "sleep"
    /\ LET q == load_queue(stored, disk)
           s == jobs_sort(q.jobs)
       IN  /\ mem' = IF q.raised \/ s.raised THEN <<>> ELSE s.jobs
           /\ pc' = IF q.raised \/ s.raised THEN "crashed"
                    ELSE IF Len(q.jobs) = 0 THEN "end" ELSE "loop"
    /\ idx' = 1
    /\ now_dt' = now_local(cfg, clock)
    /\ changed' = FALSE
    /\ tickNo' = tickNo + 1
    /\ skipped' = {}
    /\ UNCHANGED <<clock, cfg, disk, stored, log, nextKey, crashes, rr_file>>
    /\ UNCHANGED alone_vars
\* the pause between sends left out
sleep_rate_limit_skipped(t) == t

\* worker loop, after the save that follows an attempt:
\* time.sleep(rate_limit), entered at real time t
sleep_rate_limit(t) == t + RateLimit
\* a pending job with a recipient and a readable scheduled_for that is not
\* due at time t
ValidNotDue(job, t) ==
    /\ IsPending(job)
    /\ to_addr(job) # ""
    /\ parse_job_dt(job.scheduled_for) # NoneDt
    /\ is_due(parse_job_dt(job.scheduled_for), t) = "False"

\* the job under the for-loop is one the tick sends
Dispatchable(job) ==
    /\ IsPending(job)
    /\ to_addr(job) # ""
    /\ parse_job_dt(job.scheduled_for) # NoneDt
    /\ is_due(parse_job_dt(job.scheduled_for), now_dt) = "True"

\* the for-loop staying on the job it has just handled
next_index_same(i) == i

\* `for job in jobs`: the position after position i
next_index(i) == i + 1

NextPc == IF idx + 1 > Len(mem) THEN "end" ELSE "loop"

\* for-loop body, the branches that end in `continue` (or an uncaught error)
Inspect ==
    /\ pc = "loop"
    /\ ~Dispatchable(mem[idx])
    /\ LET job == mem[idx]
           dt == parse_job_dt(job.scheduled_for)
       IN  IF ~IsPending(job)
           THEN /\ pc' = NextPc
                /\ UNCHANGED <<mem, changed>>
           ELSE IF to_addr(job) = ""
           THEN /\ mem' = [mem EXCEPT ![idx] = reject_to(job)]
                /\ changed' = TRUE
                /\ pc' = NextPc
           ELSE IF dt = NoneDt
           THEN /\ mem' = [mem EXCEPT ![idx] = reject_scheduled_for(job)]
                /\ changed' = TRUE
                /\ pc' = NextPc
           ELSE IF is_due(dt, now_dt) = "False"
           THEN /\ pc' = NextPc
                /\ UNCHANGED <<mem, changed>>
           ELSE /\ pc' = "crashed"
                /\ mem' = <<>>
                /\ UNCHANGED changed
    /\ skipped' = IF ValidNotDue(mem[idx], now_dt)
                   THEN skipped \cup {mem[idx].key} ELSE skipped
    /\ idx' = next_index(idx)
    /\ UNCHANGED <<clock, cfg, disk, stored, now_dt, tickNo, log, nextKey, crashes, rr_file>>
    /\ UNCHANGED alone_vars

\* for-loop body, the branch that sends: send_job, mark or bump_retry,
\* save_queue, time.sleep(rate_limit).  lat is the time send_job takes, so
\* that the now_local read after it is later than the tick's now_dt.
DispatchOn(gateways) ==
    /\ pc = "loop"
    /\ Dispatchable(mem[idx])
    /\ \E gw \in gateways, lat \in Latencies, r \in Draws(cfg) :
          LET job == mem[idx]
              out == send_job(cfg, to_addr(job), job.theme_index, gw, rr_file, r)
              t == now_local(cfg, clock + lat)
          IN  /\ clock + lat + RateLimit <= MaxTime
              /\ mem' = try_send(mem, idx, out, t)
              /\ disk' = save_after_attempt(disk, mem')
              /\ stored' = TRUE
              /\ rr_file' = out.file
              /\ log' = Append(log, [key |-> job.key, tick |-> tickNo,
                                     now |-> now_dt, start |-> clock, at |-> t,
                                     n |-> job.attempts,
                                     due |-> parse_job_dt(job.scheduled_for),
                                     gw |-> gw, ok |-> out.ok, err |-> out.err,
                                     theme |-> out.theme])
              /\ clock' = sleep_rate_limit(clock + lat)
    /\ changed' = TRUE
    /\ idx' = next_index(idx)
    /\ pc' = NextPc
    /\ UNCHANGED <<cfg, now_dt, tickNo, skipped, nextKey, crashes>>
    /\ UNCHANGED alone_vars

\* the branch that sends, with a server that accepts or rejects and a log
\* directory that exists
Dispatch == DispatchOn(GatewayFor(cfg))

\* end of the tick: save if changed, time.sleep(tick)
TickEnd ==
    /\ pc = "end"
    /\ clock + TickSeconds <= MaxTime
    /\ disk' = IF changed THEN save_queue(disk, mem) ELSE disk
    /\ stored' = (changed \/ stored)
    /\ clock' = clock + TickSeconds
    /\ pc' = "sleep"
    /\ mem' = <<>>
    /\ idx' = 0
    /\ UNCHANGED <<cfg, now_dt, changed, tickNo, skipped, log, nextKey, crashes, rr_file>>
    /\ UNCHANGED alone_vars

\* schedule_only run by the operator while no tick is in progress
Enqueue ==
    /\ pc \in {"sleep", "crashed"}
    /\ \E k \in 1..Len(Recipients), w \in EnqueueWalls :
       \E draws \in [1..k -> Draws(cfg)] :
          LET in == [sched |-> parse_scheduled_for(cfg, w), key |-> nextKey,
                     draws |-> draws]
              q == load_queue(stored, disk)
              built == schedule_loop(cfg, k, in, q.jobs, rr_file)
          IN  /\ ~q.raised
              /\ Len(disk) + k <= MaxJobs
              /\ disk' = save_queue(disk, built.jobs)
              /\ stored' = TRUE
              /\ rr_file' = built.file
              /\ nextKey' = nextKey + k
    /\ UNCHANGED <<clock, cfg, mem, pc, idx, now_dt, changed, tickNo, skipped, log, crashes>>
    /\ UNCHANGED alone_vars

\* the operator starts the worker again after it died
Restart ==
    /\ pc = "crashed"
    /\ clock < MaxTime
    /\ clock' = clock + 1
    /\ pc' = "sleep"
    /\ mem' = <<>>
    /\ idx' = 0
    /\ UNCHANGED <<cfg, disk, stored, now_dt, changed, tickNo, skipped, log, nextKey, crashes, rr_file>>
    /\ UNCHANGED alone_vars

Next ==
    \/ TickStart
    \/ Inspect
    \/ Dispatch
    \/ TickEnd
    \/ Enqueue
    \/ Restart

Spec == Init /\ [][Next]_vars

----------------------------------------------------------------------------
(* The worker that keeps ticking: every step of the loop that can be taken *)
(* is taken in the end and send_job always returns.  Enqueue, and the      *)
(* restart of a worker that died, happen when the operator chooses.        *)

SpecLive ==
    /\ Init
    /\ [][Next]_vars
    /\ WF_vars(TickStart)
    /\ WF_vars(Inspect)
    /\ WF_vars(Dispatch)
    /\ WF_vars(TickEnd)

----------------------------------------------------------------------------
(* The worker configured with retry_delay_seconds = 0 *)

InitNoDelay == InitOn({0})

SpecNoDelay == InitNoDelay /\ [][Next]_vars

----------------------------------------------------------------------------
(* The worker with the sending branch taken in two steps, so that the      *)
(* process may die between the call of send_job and the save that follows  *)

MaxCrashes == 1
MaxCrashTime == 3

\* for-loop body, the branch that sends, up to the outcome kept in memory:
\* send_job, then mark as sent or bump_retry
Send ==
    /\ pc = "loop"
    /\ Dispatchable(mem[idx])
    /\ \E gw \in GatewayFor(cfg), lat \in Latencies, r \in Draws(cfg) :
          LET job == mem[idx]
              out == send_job(cfg, to_addr(job), job.theme_index, gw, rr_file, r)
              t == now_local(cfg, clock + lat)
          IN  /\ clock + lat + RateLimit <= MaxTime
              /\ mem' = try_send(mem, idx, out, t)
              /\ rr_file' = out.file
              /\ log' = Append(log, [key |-> job.key, tick |-> tickNo,
                                     now |-> now_dt, start |-> clock, at |-> t,
                                     n |-> job.attempts,
                                     due |-> parse_job_dt(job.scheduled_for),
                                     gw |-> gw, ok |-> out.ok, err |-> out.err,
                                     theme |-> out.theme])
              /\ clock' = clock + lat
    /\ changed' = TRUE
    /\ pc' = "save"
    /\ UNCHANGED <<cfg, disk, stored, idx, now_dt, tickNo, skipped, nextKey, crashes>>
    /\ UNCHANGED alone_vars

\* the rest of the branch: save_queue, time.sleep(rate_limit)
Save ==
    /\ pc = "save"
    /\ disk' = save_after_attempt(disk, mem)
    /\ stored' = TRUE
    /\ clock' = sleep_rate_limit(clock)
    /\ idx' = next_index(idx)
    /\ pc' = NextPc
    /\ UNCHANGED <<cfg, mem, now_dt, changed, tickNo, skipped, log, nextKey, crashes, rr_file>>
    /\ UNCHANGED alone_vars

\* the worker process dies inside a tick; what it held in memory is gone
Crash ==
    /\ pc \in {"loop", "save", "end"}
    /\ Len(crashes) < MaxCrashes
    /\ crashes' = Append(crashes, [at |-> pc, n |-> Len(log), tick |-> tickNo])
    /\ pc' = "crashed"
    /\ mem' = <<>>
    /\ idx' = 0
    /\ UNCHANGED <<clock, cfg, disk, stored, now_dt, changed, tickNo, skipped, log, nextKey, rr_file>>
    /\ UNCHANGED alone_vars

\* the queue file as found at start: empty, or one job written by hand with
\* a blank recipient
CrashStores ==
    { <<>>, <<new_job(1, " ", [fmt |-> "simple", wall |-> 2, off |-> 0], NoneIdx)>> }

\* the state after construction when the queue file is one of stores
InitAt(stores) ==
    /\ cfg \in [tz : BOOLEAN, sender : {"010", "final"}, enabled : {TRUE},
                 themes : {MaxThemes}, strategy : {"round_robin"},
                 retry_delay : {RetryDelay}]
    /\ disk \in stores
    /\ stored = (disk # <<>>)
    /\ nextKey = Len(disk) + 1
    /\ rr_file = [kind |-> "absent", rr_next |-> 0]
    /\ clock = 0
    /\ mem = <<>>
    /\ pc = "sleep"
    /\ idx = 0
    /\ now_dt = NoneDt
    /\ changed = FALSE
    /\ tickNo = 0
    /\ log = <<>>
    /\ skipped = {}
    /\ crashes = <<>>
    /\ th_calls = <<>>
    /\ due_job = NoneDt
    /\ due_now = NoneDt
    /\ due_res = "none"
    /\ files = [p \in AllPaths |-> AbsentFile]
    /\ saves = <<>>
    /\ ids = <<>>
    /\ email_cfg = NoEmailCfg
    /\ sj_calls = <<>>
    /\ op = NoOp

InitCrash == InitAt(CrashStores)

\* the steps of the worker and of the operator, followed up to MaxCrashTime
NextCrash ==
    /\ \/ TickStart
       \/ Inspect
       \/ Send
       \/ Save
       \/ TickEnd
       \/ Enqueue
       \/ Restart
       \/ Crash
    /\ clock' <= MaxCrashTime

SpecCrash == InitCrash /\ [][NextCrash]_vars

----------------------------------------------------------------------------
(* The worker and schedule_only side by side: the operator's run is taken   *)
(* step by step (load, one pass of the loop per recipient, save), at any    *)
(* point of a tick, and may end before its save                             *)

\* the queue file as found at start: empty, or one job written by hand that
\* is due at once
RaceStores ==
    { <<>>, <<new_job(1, "a@x.com", [fmt |-> "simple", wall |-> 0, off |-> 0], NoneIdx)>> }

InitOperator == InitAt(RaceStores)

\* schedule_only up to load_queue: recipients, scheduled_for, the list read
EnqueueLoad ==
    /\ op.pc = "idle"
    /\ \E k \in 1..Len(Recipients), w \in EnqueueWalls :
          LET q == load_queue(stored, disk)
          IN  /\ ~q.raised
              /\ Len(q.jobs) + k <= MaxJobs
              /\ op' = [op EXCEPT !.pc = "building", !.jobs = q.jobs,
                                  !.base = Len(q.jobs), !.n = 0, !.k = k,
                                  !.sched = parse_scheduled_for(cfg, w),
                                  !.file0 = rr_file]
    /\ UNCHANGED <<due_vars, rr_file, th_calls, files, saves, ids, email_cfg, sj_calls>>
    /\ UNCHANGED worker_vars

\* schedule_only, one pass of the for-loop
EnqueueBuild ==
    /\ op.pc = "building"
    /\ op.n < op.k
    /\ \E r \in Draws(cfg) :
          LET st == schedule_step(cfg, op.n + 1, nextKey + op.n, op.sched,
                                  op.jobs, rr_file, r)
          IN  /\ op' = [op EXCEPT !.jobs = st.jobs, !.n = op.n + 1]
              /\ rr_file' = st.file
              /\ disk' = store_after_step(disk, st.jobs)
    /\ UNCHANGED <<clock, cfg, stored, mem, pc, idx, now_dt, changed, tickNo, log,
                   skipped, nextKey, crashes>>
    /\ UNCHANGED <<due_vars, th_calls, files, saves, ids, email_cfg, sj_calls>>

\* the jobs of d that were sent and are pending again in e
Reverted(d, e) ==
    { d[i].key : i \in { i \in 1..Len(d) :
         /\ d[i].status = "sent"
         /\ \E j \in 1..Len(e) : e[j].key = d[i].key /\ IsPending(e[j]) } }

\* schedule_only after the loop: q["jobs"] = jobs; save_queue(cfg, q)
EnqueueSave ==
    /\ op.pc = "building"
    /\ op.n = op.k
    /\ LET base == enqueue_base(SubSeq(op.jobs, 1, op.base), disk)
           jobs == base \o SubSeq(op.jobs, op.base + 1, Len(op.jobs))
       IN  /\ disk' = save_queue(disk, jobs)
           /\ op' = [op EXCEPT !.pc = "idle", !.last = "saved",
                               !.reverted = op.reverted \cup Reverted(disk, disk')]
    /\ stored' = TRUE
    /\ nextKey' = nextKey + op.k
    /\ UNCHANGED <<clock, cfg, mem, pc, idx, now_dt, changed, tickNo, log,
                   skipped, crashes, rr_file>>
    /\ UNCHANGED <<due_vars, th_calls, files, saves, ids, email_cfg, sj_calls>>

\* schedule_only ends before its save: the process is killed or an
\* exception leaves the function
EnqueueDies ==
    /\ op.pc = "building"
    /\ op' = [op EXCEPT !.pc = "idle", !.last = "died"]
    /\ UNCHANGED <<due_vars, rr_file, th_calls, files, saves, ids, email_cfg, sj_calls>>
    /\ UNCHANGED worker_vars

NextOperator ==
    /\ \/ TickStart
       \/ Inspect
       \/ Dispatch
       \/ TickEnd
       \/ EnqueueLoad
       \/ EnqueueBuild
       \/ EnqueueSave
       \/ EnqueueDies
    /\ clock' <= MaxCrashTime

SpecOperator == InitOperator /\ [][NextOperator]_vars

----------------------------------------------------------------------------
(* Operations taken alone *)
----------------------------------------------------------------------------
(* The worker when a write of the queue file may fail: save_queue raises    *)
(* OSError (open, json.dump or Path.replace) and nothing catches it          *)

\* save_queue raises, after an attempt or at the end of the tick: the
\* exception leaves the for-loop and the `while True`, the process ends
SaveRaises ==
    /\ \/ pc = "save"
       \/ pc = "end" /\ changed
    /\ Len(crashes) < MaxCrashes
    /\ crashes' = Append(crashes, [at |-> pc, n |-> Len(log), tick |-> tickNo])
    /\ pc' = "crashed"
    /\ mem' = <<>>
    /\ idx' = 0
    /\ UNCHANGED <<clock, cfg, disk, stored, now_dt, changed, tickNo, skipped, log, nextKey, rr_file>>
    /\ UNCHANGED alone_vars

NextIo ==
    /\ \/ TickStart
       \/ Inspect
       \/ Send
       \/ Save
       \/ SaveRaises
       \/ TickEnd
       \/ Enqueue
       \/ Restart
    /\ clock' <= MaxCrashTime

SpecIo == InitCrash /\ [][NextIo]_vars

----------------------------------------------------------------------------
(* The worker when the directory of the log file cannot be made: after the  *)
(* server took the message, log_email_result raises inside send_job         *)

\* the branch that sends, when log_email_result raises after the delivery
DispatchUnlogged ==
    DispatchOn(IF composer_takes_override(cfg) THEN {"unlogged"} ELSE {})

NextLog ==
    \/ TickStart
    \/ Inspect
    \/ Dispatch
    \/ DispatchUnlogged
    \/ TickEnd
    \/ Enqueue
    \/ Restart

SpecLog == Init /\ [][NextLog]_vars
----------------------------------------------------------------------------
(* send_job taken alone: the defaults of cfg["email"] around calls with and  *)
(* without overrides                                                         *)

EmailSubjects == {NoKey, "", "S0"}

EmailTemplates == {NoKey, "T0"}

SubjectOverrides == {NoOverride, "S1"}

TemplateOverrides == {NoOverride, "T1"}

\* how a call of send_job ends: the composer or the server raises, or the
\* message is sent
SendJobEnds == {"raises", "returns"}

\* no worker running and an empty store: the state around an operation that
\* is taken alone
WorkerIdle ==
    /\ clock = 0
    /\ disk = <<>>
    /\ stored = FALSE
    /\ nextKey = 1
    /\ mem = <<>>
    /\ pc = "sleep"
    /\ idx = 0
    /\ now_dt = NoneDt
    /\ changed = FALSE
    /\ tickNo = 0
    /\ log = <<>>
    /\ skipped = {}
    /\ crashes = <<>>

\* is_due called nowhere
DueIdle == due_job = NoneDt /\ due_now = NoneDt /\ due_res = "none"

\* no save taken alone
SaveIdle == files = [p \in AllPaths |-> AbsentFile] /\ saves = <<>>

\* no id given out
IdsIdle == ids = <<>>

\* send_job called nowhere
SendJobIdle == email_cfg = NoEmailCfg /\ sj_calls = <<>>

----------------------------------------------------------------------------
(* is_due taken alone: every pair of datetimes up to MaxWall and MaxOff *)

MaxWall == 3
MaxOff == 2

DueInputs ==
    [tz : {FALSE}, wall : 0..MaxWall, off : {0}]
        \cup [tz : {TRUE}, wall : 0..MaxWall, off : 0..MaxOff]

InitDue ==
    /\ cfg = [tz |-> FALSE, sender |-> "final", enabled |-> TRUE,
              themes |-> MaxThemes, strategy |-> "round_robin",
              retry_delay |-> RetryDelay]
    /\ rr_file = [kind |-> "absent", rr_next |-> 0]
    /\ th_calls = <<>>
    /\ WorkerIdle
    /\ SaveIdle
    /\ IdsIdle
    /\ SendJobIdle
    /\ op = NoOp
    /\ due_job \in DueInputs
    /\ due_now \in DueInputs
    /\ due_res = "none"

CallIsDue ==
    /\ due_res = "none"
    /\ due_res' = is_due(due_job, due_now)
    /\ UNCHANGED <<due_job, due_now, rr_file, th_calls, files, saves, ids, email_cfg, sj_calls, op>>
    /\ UNCHANGED worker_vars

NextDue == CallIsDue

SpecDue == InitDue /\ [][NextDue]_vars

----------------------------------------------------------------------------
(* resolve_theme taken alone: up to MaxCalls calls on any configuration of *)
(* the templates section and any rotation state file                       *)

MaxCalls == 2

Strategies == {"round_robin", "random", "by_recipient"}

ThemeRecipients == {"a@x.com", " A@x.com ", ""}

InitTheme ==
    /\ cfg \in [tz : {FALSE}, sender : {"final"}, enabled : BOOLEAN,
                 themes : 0..MaxThemes, strategy : Strategies,
                 retry_delay : {RetryDelay}]
    /\ rr_file \in StateFiles
    /\ th_calls = <<>>
    /\ WorkerIdle
    /\ DueIdle
    /\ SaveIdle
    /\ IdsIdle
    /\ SendJobIdle
    /\ op = NoOp

CallResolveTheme ==
    /\ Len(th_calls) < MaxCalls
    /\ \E recipient \in ThemeRecipients, override \in Overrides, r \in Draws(cfg) :
          LET res == resolve_theme(cfg, recipient, override, rr_file, r)
          IN  /\ rr_file' = res.file
              /\ th_calls' = Append(th_calls,
                                [recipient |-> recipient, override |-> override,
                                 idx |-> res.idx, picked |-> res.picked,
                                 before |-> rr_file, after |-> res.file])
    /\ UNCHANGED <<due_vars, files, saves, ids, email_cfg, sj_calls, op>>
    /\ UNCHANGED worker_vars

NextTheme == CallResolveTheme

SpecTheme == InitTheme /\ [][NextTheme]_vars

----------------------------------------------------------------------------
(* save_queue and save_templates_state taken alone: up to MaxSaves saves,  *)
(* each of which may be cut off by the death of the process at any stage   *)

MaxSaves == 2

\* what a save may be asked to write
SaveData(p) ==
    IF p = "queue.json"
    THEN { <<>>,
           <<new_job(1, "a@x.com", parse_scheduled_for(cfg, 1), 0)>>,
           <<mark_sent(new_job(1, "a@x.com", parse_scheduled_for(cfg, 1), 0),
                       now_local(cfg, 1)),
             new_job(2, "b@x.com", parse_scheduled_for(cfg, 1), 1)>> }
    ELSE { <<save_templates_state(n)>> : n \in 0..1 }

InitSave ==
    /\ cfg = [tz |-> FALSE, sender |-> "final", enabled |-> TRUE,
              themes |-> MaxThemes, strategy |-> "round_robin",
              retry_delay |-> RetryDelay]
    /\ rr_file = [kind |-> "absent", rr_next |-> 0]
    /\ th_calls = <<>>
    /\ WorkerIdle
    /\ DueIdle
    /\ IdsIdle
    /\ SendJobIdle
    /\ op = NoOp
    /\ saves = <<>>
    /\ \E q \in {AbsentFile} \cup {FullOf(d) : d \in SaveData("queue.json")},
          st \in {AbsentFile} \cup {FullOf(d) : d \in SaveData("templates_state.json")} :
          files = [p \in AllPaths |->
                     CASE p = "queue.json" -> q
                       [] p = "templates_state.json" -> st
                       [] OTHER -> AbsentFile]

CallSave ==
    /\ Len(saves) < MaxSaves
    /\ \E p \in Paths, stage \in Stages :
       \E data \in SaveData(p) :
          /\ files' = save_file(files, p, data, stage)
          /\ saves' = Append(saves, [path |-> p, data |-> data, stage |-> stage,
                                     before |-> files, after |-> files'])
    /\ UNCHANGED <<due_vars, rr_file, th_calls, ids, email_cfg, sj_calls, op>>
    /\ UNCHANGED worker_vars

NextSave == CallSave

SpecSave == InitSave /\ [][NextSave]_vars

----------------------------------------------------------------------------
(* new_job_id taken alone: the ids schedule_only gives out, one per        *)
(* recipient, in runs made at any second up to MaxTime                      *)

MaxIds == 3

InitIds ==
    /\ cfg = [tz |-> FALSE, sender |-> "final", enabled |-> TRUE,
              themes |-> MaxThemes, strategy |-> "round_robin",
              retry_delay |-> RetryDelay]
    /\ rr_file = [kind |-> "absent", rr_next |-> 0]
    /\ th_calls = <<>>
    /\ WorkerIdle
    /\ DueIdle
    /\ SaveIdle
    /\ ids = <<>>
    /\ email_cfg = NoEmailCfg
    /\ sj_calls = <<>>
    /\ op = NoOp

\* one run of schedule_only for the first k recipients: k calls of new_job_id
ScheduleIds ==
    /\ \E k \in 1..Len(Recipients) :
       \E rnds \in [1..k -> RandIds] :
          /\ Len(ids) + k <= MaxIds
          /\ ids' = ids \o [i \in 1..k |-> new_job_id(clock, rnds[i])]
    /\ UNCHANGED <<cfg, disk, stored, mem, pc, idx, now_dt, changed, tickNo, skipped, log, nextKey,
                   crashes, clock>>
    /\ UNCHANGED <<due_vars, rr_file, th_calls, files, saves, email_cfg, sj_calls, op>>

\* a second goes by between two runs
SecondPasses ==
    /\ clock < MaxTime
    /\ clock' = clock + 1
    /\ UNCHANGED <<cfg, disk, stored, mem, pc, idx, now_dt, changed, tickNo, skipped, log, nextKey,
                   crashes, ids>>
    /\ UNCHANGED <<due_vars, rr_file, th_calls, files, saves, email_cfg, sj_calls, op>>

NextIds ==
    \/ ScheduleIds
    \/ SecondPasses

SpecIds == InitIds /\ [][NextIds]_vars

----------------------------------------------------------------------------
(* pick_theme_index under round_robin taken alone, on any content of the   *)
(* rotation state file                                                     *)

\* what templates_state.json may hold besides StateFiles: a file open()
\* cannot read, JSON that is not an object, an object without "rr_next", an
\* object whose "rr_next" is no number (null, "abc", [])
RotationFiles ==
    StateFiles \cup
        { [kind |-> k, rr_next |-> 0] :
             k \in {"unreadable", "notdict", "nokey", "badcursor"} }

\* int(st.get("rr_next", 0)) raises TypeError or ValueError
int_raises(f) == f.kind = "badcursor"

\* pick_theme_index(cfg, recipient), round_robin branch, with the exception
\* int() may raise
round_robin(c, recipient, f) ==
    IF int_raises(f)
    THEN [raised |-> TRUE, idx |-> NoneIdx, file |-> f]
    ELSE LET p == pick_theme_index(c, recipient, f, 0)
         IN  [raised |-> FALSE, idx |-> p.idx, file |-> p.file]

InitRotation ==
    /\ cfg \in [tz : {FALSE}, sender : {"final"}, enabled : {TRUE},
                 themes : 1..MaxThemes, strategy : {"round_robin"},
                 retry_delay : {RetryDelay}]
    /\ rr_file \in RotationFiles
    /\ th_calls = <<>>
    /\ WorkerIdle
    /\ DueIdle
    /\ SaveIdle
    /\ IdsIdle
    /\ SendJobIdle
    /\ op = NoOp

CallPickThemeIndex ==
    /\ Len(th_calls) < MaxCalls
    /\ \E recipient \in ThemeRecipients :
          LET res == round_robin(cfg, recipient, rr_file)
          IN  /\ rr_file' = res.file
              /\ th_calls' = Append(th_calls,
                                [recipient |-> recipient, raised |-> res.raised,
                                 idx |-> res.idx,
                                 before |-> rr_file, after |-> res.file])
    /\ UNCHANGED <<due_vars, files, saves, ids, email_cfg, sj_calls, op>>
    /\ UNCHANGED worker_vars

NextRotation == CallPickThemeIndex

SpecRotation == InitRotation /\ [][NextRotation]_vars

----------------------------------------------------------------------------
(* resolve_theme as the worker's attempts reach it: called again and again *)
(* with the theme_index the job holds in the queue file                    *)

InitAttempts ==
    /\ cfg \in [tz : {FALSE}, sender : {"final"}, enabled : {TRUE},
                 themes : 1..MaxThemes, strategy : Strategies,
                 retry_delay : {RetryDelay}]
    /\ rr_file \in StateFiles
    /\ th_calls = <<>>
    /\ WorkerIdle
    /\ DueIdle
    /\ SaveIdle
    /\ IdsIdle
    /\ SendJobIdle
    /\ op = NoOp

\* one attempt: send_job -> create_message_for_recipient -> resolve_theme
CallResolveThemeJson ==
    /\ Len(th_calls) < MaxCalls
    /\ \E v \in JsonOverrides, r \in Draws(cfg) :
          LET res == resolve_theme_json(cfg, "a@x.com", v, rr_file, r)
          IN  /\ rr_file' = res.file
              /\ th_calls' = Append(th_calls,
                                [override |-> v, idx |-> res.idx,
                                 picked |-> res.picked,
                                 before |-> rr_file, after |-> res.file])
    /\ UNCHANGED <<due_vars, files, saves, ids, email_cfg, sj_calls, op>>
    /\ UNCHANGED worker_vars

NextAttempts == CallResolveThemeJson

SpecAttempts == InitAttempts /\ [][NextAttempts]_vars

----------------------------------------------------------------------------
(* send_job taken alone: the calls *)

InitSendJob ==
    /\ cfg = [tz |-> FALSE, sender |-> "final", enabled |-> TRUE,
              themes |-> MaxThemes, strategy |-> "round_robin",
              retry_delay |-> RetryDelay]
    /\ rr_file = [kind |-> "absent", rr_next |-> 0]
    /\ th_calls = <<>>
    /\ WorkerIdle
    /\ DueIdle
    /\ SaveIdle
    /\ IdsIdle
    /\ email_cfg \in [subject : EmailSubjects, html_template : EmailTemplates]
    /\ sj_calls = <<>>
    /\ op = NoOp

\* one call of send_job(cfg, to_addr, subject_override, template_override, ...)
CallSendJob ==
    /\ Len(sj_calls) < MaxCalls
    /\ \E so \in SubjectOverrides, to \in TemplateOverrides, end \in SendJobEnds :
          LET during == apply_overrides(email_cfg, so, to)
              \* the composer reads email_cfg["subject"] and ["html_template"]
              keyerror == during.subject = NoKey \/ during.html_template = NoKey
          IN  /\ email_cfg' = restore(email_cfg, so, to)
              /\ sj_calls' = Append(sj_calls,
                                [so |-> so, to |-> to, before |-> email_cfg,
                                 during |-> during,
                                 raised |-> keyerror \/ end = "raises",
                                 after |-> email_cfg'])
    /\ UNCHANGED <<due_vars, rr_file, th_calls, files, saves, ids, op>>
    /\ UNCHANGED worker_vars

NextSendJob == CallSendJob

SpecSendJob == InitSendJob /\ [][NextSendJob]_vars

----------------------------------------------------------------------------
(* Reading the history *)

\* the jobs the program holds, on disk or in the running tick
AllJobs == {disk[i] : i \in 1..Len(disk)} \cup {mem[i] : i \in 1..Len(mem)}

\* positions in a log of the delivery attempts made for the job with key k
AttemptsOf(l, k) == {i \in 1..Len(l) : l[i].key = k}

\* the most recent delivery attempt made for the job with key k
LastAttempt(k) ==
    log[CHOOSE i \in AttemptsOf(log, k) : \A j \in AttemptsOf(log, k) : j <= i]

\* i and j are two attempts for the same job with none in between
Consecutive(i, j) ==
    /\ i < j
    /\ log[i].key = log[j].key
    /\ \A m \in (i + 1)..(j - 1) : log[m].key # log[i].key

\* the running tick has gone past position i of its list
Inspected(i) == pc \in {"loop", "end"} /\ i \in 1..Len(mem) /\ i < idx

\* the job at position i of the running tick's list was attempted in this tick
AttemptedThisTick(i) ==
    \E e \in 1..Len(log) : log[e].key = mem[i].key /\ log[e].tick = tickNo

\* the delivery attempts whose outcome a stored job shows: its failures, and
\* its success if it is sent
Recorded(job) == job.attempts + (IF job.status = "sent" THEN 1 ELSE 0)

RECURSIVE SumRecorded(_)
SumRecorded(jobs) ==
    IF jobs = <<>> THEN 0
    ELSE Recorded(jobs[1]) + SumRecorded(SubSeq(jobs, 2, Len(jobs)))

\* the process deaths that fell between a call of send_job and its save
DeathsBeforeSave == {c \in 1..Len(crashes) : crashes[c].at = "save"}

\* the last delivery attempt for the job with key k was accepted by the
\* server and the process died before the save that follows
LostAccept(k) ==
    /\ AttemptsOf(log, k) # {}
    /\ LastAttempt(k).gw = "accept"
    /\ \E c \in DeathsBeforeSave :
          /\ log[crashes[c].n].key = k
          /\ \A i \in AttemptsOf(log, k) : i <= crashes[c].n

----------------------------------------------------------------------------
(* Properties *)

\* C1: terminal states are absorbing.  In every step, a job that is sent or
\* failed (on disk, or in the running tick's list) keeps every field, and no
\* delivery attempt is added for it.
C1_TerminalAbsorbing ==
    [][ /\ \A i \in 1..Len(disk) :
              Terminal(disk[i]) =>
                 /\ \E j \in 1..Len(disk') : disk'[j] = disk[i]
                 /\ AttemptsOf(log', disk[i].key) = AttemptsOf(log, disk[i].key)
        /\ \A i \in 1..Len(mem) :
              Terminal(mem[i]) =>
                 /\ \A j \in 1..Len(mem') :
                       mem'[j].key = mem[i].key => mem'[j] = mem[i]
                 /\ AttemptsOf(log', mem[i].key) = AttemptsOf(log, mem[i].key)
      ]_vars

\* C1 witness: a later tick has gone past a job that was sent in an earlier
\* tick and is due.
C1_Witness ==
    \E i \in 1..Len(mem) :
        /\ Inspected(i)
        /\ mem[i].status = "sent"
        /\ AttemptsOf(log, mem[i].key) # {}
        /\ LastAttempt(mem[i].key).tick < tickNo
        /\ is_due(parse_job_dt(mem[i].scheduled_for), now_dt) = "True"

\* C2: retry exhaustion.  A job all of whose delivery attempts failed has
\* been attempted attempts times and at most MaxRetries + 1 times, in different
\* ticks, each tick starting no earlier than RetryDelay after the previous
\* failure; it is failed exactly when that count is MaxRetries + 1.
C2_RetryExhaustion ==
    \A job \in AllJobs :
        LET A == AttemptsOf(log, job.key)
        IN  (\A i \in A : ~log[i].ok) =>
               /\ job.attempts = Cardinality(A)
               /\ Cardinality(A) <= MaxRetries + 1
               /\ (A # {} /\ job.status = "failed") => Cardinality(A) = MaxRetries + 1
               /\ Cardinality(A) = MaxRetries + 1 =>
                     job.status = "failed" /\ job.attempts = MaxRetries + 1
               /\ \A i, j \in A : i # j => log[i].tick # log[j].tick
               /\ \A i, j \in A :
                     Consecutive(i, j) =>
                        Instant(log[j].now) >= Instant(log[i].at) + RetryDelay

\* C2 witness: a job that failed MaxRetries + 1 times and is failed.
C2_Witness ==
    \E i \in 1..Len(disk) :
        /\ disk[i].status = "failed"
        /\ disk[i].attempts = MaxRetries + 1
        /\ Cardinality(AttemptsOf(log, disk[i].key)) = MaxRetries + 1

\* C3: a job whose attempts exceeds MaxRetries is failed, and no delivery
\* attempt is ever made for a job whose attempts already exceeds MaxRetries.
C3_ExhaustedIsFailed ==
    /\ \A job \in AllJobs : job.attempts > MaxRetries => job.status = "failed"
    /\ \A i \in 1..Len(log) : log[i].n <= MaxRetries

\* C3 witness: a tick started after the job's last attempt has gone past a
\* job whose attempts exceeds MaxRetries, the job being due.
C3_Witness ==
    \E i \in 1..Len(mem) :
        /\ Inspected(i)
        /\ mem[i].attempts > MaxRetries
        /\ LastAttempt(mem[i].key).tick < tickNo
        /\ is_due(parse_job_dt(mem[i].scheduled_for), now_dt) = "True"

\* C4: every dispatch of a due, valid pending job composes the message and
\* hands it to the gateway, and unless the gateway rejects it the job is
\* sent, with sent_at set and last_error empty, in the persisted collection.
C4_AcceptedIsSent ==
    \A i \in 1..Len(log) :
        log[i].gw # "reject" =>
           /\ log[i].ok
           /\ \E d \in 1..Len(disk) :
                 /\ disk[d].key = log[i].key
                 /\ disk[d].status = "sent"
                 /\ disk[d].sent_at = isoformat(log[i].at)
                 /\ disk[d].last_error = ""

\* C5: retry backoff.  A pending job that has been attempted holds the error
\* of its last attempt in last_error and that attempt's time plus RetryDelay in
\* scheduled_for, and no attempt for a job is made in a tick whose time is
\* earlier than the previous failure's time plus RetryDelay.
C5_RetryBackoff ==
    /\ \A job \in AllJobs :
          (job.status = "pending" /\ AttemptsOf(log, job.key) # {}) =>
             LET e == LastAttempt(job.key)
             IN  /\ ~e.ok
                 /\ job.attempts <= MaxRetries
                 /\ job.last_error = e.err
                 /\ job.scheduled_for = isoformat(plus_seconds(e.at, RetryDelay))
    /\ \A i, j \in 1..Len(log) :
          Consecutive(i, j) =>
             PyLt(log[j].now, plus_seconds(log[i].at, RetryDelay)) = "False"

\* C5 witness: a tick that started after the failure has gone past the
\* rescheduled job without attempting it, because it was not yet due.
C5_Witness ==
    \E i \in 1..Len(mem) :
        /\ Inspected(i)
        /\ mem[i].status = "pending"
        /\ mem[i].attempts >= 1
        /\ LastAttempt(mem[i].key).tick < tickNo
        /\ is_due(parse_job_dt(mem[i].scheduled_for), now_dt) = "False"

\* C6: of two delivery attempts made in the same tick, the one whose job has
\* the earlier scheduled_for comes first.
C6_AscendingWithinTick ==
    \A i, j \in 1..Len(log) :
        (log[i].tick = log[j].tick /\ PyLt(log[i].due, log[j].due) = "True")
            => i < j

\* C6 witness: in one tick the job stored second was attempted before the job
\* stored first, its scheduled_for being earlier.
C6_Witness ==
    \E i, j \in 1..Len(log) :
        /\ i < j
        /\ log[i].tick = log[j].tick
        /\ log[i].key > log[j].key
        /\ PyLt(log[i].due, log[j].due) = "True"

\* C7: when the for-loop reaches a pending job whose recipient is empty or
\* blank, that step sets it to failed with a last_error, changes no other
\* field, and attempts nothing; such a job has attempts 0 and no delivery
\* attempt, ever.
C7_EmptyRecipientFails ==
    /\ [](\A job \in AllJobs :
             strip(job.to) = "" =>
                job.attempts = 0 /\ AttemptsOf(log, job.key) = {})
    /\ [][ (pc = "loop" /\ mem[idx].status = "pending" /\ strip(mem[idx].to) = ""
               /\ idx' # idx)
              => /\ idx' = idx + 1
                 /\ mem' = [mem EXCEPT ![idx] =
                              [mem[idx] EXCEPT !.status = "failed",
                                               !.last_error = mem'[idx].last_error]]
                 /\ mem'[idx].last_error # ""
                 /\ log' = log
         ]_vars

\* C7 witness: the running tick has failed a job with a blank recipient that
\* was not due at the tick's time.
C7_Witness ==
    \E i \in 1..Len(mem) :
        /\ Inspected(i)
        /\ mem[i].to = " "
        /\ mem[i].status = "failed"
        /\ mem[i].last_error = "Missing 'to'"
        /\ mem[i].attempts = 0
        /\ parse_job_dt(mem[i].scheduled_for) # NoneDt
        /\ is_due(parse_job_dt(mem[i].scheduled_for), now_dt) = "False"

\* C8: once a tick has begun and the worker is no longer inside a tick, every
\* stored job whose scheduled_for is missing or unparseable is failed with a
\* last_error and has had no delivery attempt, whatever else is in the store.
C8_UnparseableFails ==
    (tickNo >= 1 /\ pc \in {"sleep", "crashed"}) =>
        \A i \in 1..Len(disk) :
            parse_job_dt(disk[i].scheduled_for) = NoneDt =>
               /\ disk[i].status = "failed"
               /\ disk[i].last_error # ""
               /\ AttemptsOf(log, disk[i].key) = {}

\* C9: the ordering of the stored collection is defined, puts every job with
\* an unparseable scheduled_for after all parseable ones, and is idempotent.
C9_SortTotal ==
    LET s == jobs_sort(disk)
    IN  /\ ~s.raised
        /\ \A i, j \in 1..Len(s.jobs) :
              (parse_job_dt(s.jobs[i].scheduled_for) = NoneDt
                 /\ parse_job_dt(s.jobs[j].scheduled_for) # NoneDt) => j < i
        /\ jobs_sort(s.jobs) = s

\* C10: is_due never raises and is true iff scheduled_for <= now: on the
\* wall-clock readings when exactly one side is aware, directly (as instants)
\* when both are aware or both naive.
C10_IsDue ==
    due_res # "none" =>
       /\ due_res \in {"True", "False"}
       /\ (due_res = "True") <=>
             IF due_job.tz = due_now.tz
             THEN due_job.wall - due_job.off <= due_now.wall - due_now.off
             ELSE due_job.wall <= due_now.wall

\* C10 witness: an aware scheduled_for against a naive now, where dropping
\* the offset decides the answer.
C10_Witness ==
    /\ due_res = "False"
    /\ due_job.tz /\ ~due_now.tz
    /\ due_job.wall > due_now.wall
    /\ due_job.wall - due_job.off <= due_now.wall

\* the calls of th_calls in which pick_theme_index ran, in order
Picks == SelectSeq(th_calls, LAMBDA c : c.picked)

\* C14: round robin over N themes.  Every selection returns the stored cursor
\* modulo N and leaves (returned + 1) mod N in the state file; each selection
\* returns the previous one plus 1 modulo N, so that any N consecutive
\* selections return each index of 0..N-1 once.
C14_RoundRobin ==
    cfg.strategy = "round_robin" =>
        LET N == cfg.themes
        IN  /\ \A i \in 1..Len(Picks) :
                  /\ Picks[i].idx \in 0..(N - 1)
                  /\ Picks[i].idx = load_templates_state(Picks[i].before) % N
                  /\ Picks[i].after =
                        [kind |-> "dict", rr_next |-> (Picks[i].idx + 1) % N]
            /\ \A i \in 1..(Len(Picks) - 1) :
                  Picks[i + 1].idx = (Picks[i].idx + 1) % N
            /\ \A i \in 1..(Len(Picks) - N + 1) :
                  {Picks[j].idx : j \in i..(i + N - 1)} = 0..(N - 1)
            /\ (Len(Picks) > 0 /\ Len(th_calls) > 0
                   /\ th_calls[Len(th_calls)].picked) =>
                  rr_file.rr_next = (Picks[Len(Picks)].idx + 1) % N

\* C14 witness: two selections over two themes from a stored cursor past the
\* end of the list, the second wrapping round to index 0.
C14_Witness ==
    /\ cfg.strategy = "round_robin" /\ cfg.themes = 2
    /\ Len(Picks) = 2
    /\ Picks[1].before = [kind |-> "dict", rr_next |-> 3]
    /\ Picks[1].idx = 1
    /\ Picks[2].idx = 0
    /\ rr_file = [kind |-> "dict", rr_next |-> 1]

\* C15: under by_recipient, two selections whose recipients differ only in
\* letter case or surrounding whitespace return the same index, every index
\* is within 0..N-1, and no selection changes the rotation state file.
C15_ByRecipient ==
    cfg.strategy = "by_recipient" =>
        /\ \A i \in 1..Len(Picks) :
              /\ Picks[i].idx \in 0..(cfg.themes - 1)
              /\ Picks[i].after = Picks[i].before
        /\ \A i, j \in 1..Len(Picks) :
              lower(strip(Picks[i].recipient)) = lower(strip(Picks[j].recipient))
                 => Picks[i].idx = Picks[j].idx

\* C15 witness: the same address selected twice over two themes, once in
\* lower case and once with a capital and surrounding blanks.
C15_Witness ==
    /\ cfg.strategy = "by_recipient" /\ cfg.themes = 2
    /\ Len(Picks) = 2
    /\ Picks[1].recipient = "a@x.com"
    /\ Picks[2].recipient = " A@x.com "
    /\ Picks[1].idx = 1

\* C16: with themes enabled and not empty, a call given an override within
\* 0..N-1 returns that index, does not run pick_theme_index and leaves the
\* rotation state file as it was.
C16_Override ==
    \A i \in 1..Len(th_calls) :
        LET c == th_calls[i]
        IN  (cfg.enabled /\ cfg.themes > 0
                /\ c.override >= 0 /\ c.override < cfg.themes) =>
               /\ c.idx = c.override
               /\ ~c.picked
               /\ c.after = c.before

\* C16 witness: under round robin with the cursor at 0, a call given the
\* override 1 returned 1 and the cursor is still 0.
C16_Witness ==
    \E i \in 1..Len(th_calls) :
        /\ cfg.enabled /\ cfg.themes = 2 /\ cfg.strategy = "round_robin"
        /\ th_calls[i].override = 1
        /\ th_calls[i].idx = 1
        /\ th_calls[i].before = [kind |-> "dict", rr_next |-> 0]
        /\ th_calls[i].after = th_calls[i].before

\* C12: atomic replace.  After a save that was cut off at any stage, or that
\* returned, a load of the file reads what it read before the save or the
\* whole of what was being saved, and never raises on a text cut short; a save
\* that returned is read back whole; the other file reads as before.
C12_AtomicReplace ==
    /\ \A p \in Paths : files[p].kind # "partial"
    /\ \A i \in 1..Len(saves) :
          LET s == saves[i]
              b == json_load(s.before, s.path)
              a == json_load(s.after, s.path)
          IN  /\ ~a.raised
              /\ a = b \/ (a.exists /\ a.data = s.data)
              /\ s.stage = "replaced" => (a.exists /\ a.data = s.data)
              /\ \A q \in Paths \ {s.path} :
                    json_load(s.after, q) = json_load(s.before, q)

\* C12 witness: a save of the queue file died while the new text was being
\* written, and the file still reads as the other jobs it held before.
C12_Witness ==
    \E i \in 1..Len(saves) :
        /\ saves[i].path = "queue.json"
        /\ saves[i].stage = "opened"
        /\ saves[i].after["queue.tmp"].kind = "partial"
        /\ json_load(saves[i].before, "queue.json").exists
        /\ json_load(saves[i].after, "queue.json").data # saves[i].data
        /\ json_load(saves[i].after, "queue.json")
              = json_load(saves[i].before, "queue.json")

\* C11 (as stated): when the worker is about to examine the next job of a
\* tick, the stored collection holds every job the tick has gone past as the
\* worker holds it, whatever decided its outcome.
C11_PersistPerJob ==
    pc = "loop" =>
        \A i \in 1..Len(mem) :
            i < idx => \E d \in 1..Len(disk) : disk[d] = mem[i]

\* C11 (amended): when the worker is about to examine the next job, or has
\* finished the list, the stored collection holds every job attempted earlier
\* in the tick as the worker holds it; and the attempts whose outcome the
\* store does not show are exactly those cut off between send_job and the
\* save, one per death of the process, and the one in flight.
C11_PersistPerAttempt ==
    /\ pc \in {"loop", "end"} =>
          \A i \in 1..Len(mem) :
              (i < idx /\ AttemptedThisTick(i)) =>
                  \E d \in 1..Len(disk) : disk[d] = mem[i]
    /\ Len(log) - SumRecorded(disk)
          = Cardinality(DeathsBeforeSave) + (IF pc = "save" THEN 1 ELSE 0)

\* C11 witness: after a death of the process between send_job and the save,
\* a later tick has attempted its first job, saved it and moved on to the
\* second.
C11_Witness ==
    /\ pc = "loop" /\ idx = 2
    /\ AttemptedThisTick(1)
    /\ \E d \in 1..Len(disk) : disk[d] = mem[1]
    /\ DeathsBeforeSave # {}
    /\ Len(log) - SumRecorded(disk) = 1

\* C13: when the server accepted a job's message and the process died before
\* the save, the stored job is pending with its attempts and due time as
\* before; it is due when a later tick reaches it, and the step the worker
\* then takes for it is another call of send_job.
C13_DuplicateAfterCrash ==
    /\ [](/\ \A d \in 1..Len(disk) :
                LostAccept(disk[d].key) =>
                   /\ disk[d].status = "pending"
                   /\ disk[d].attempts = LastAttempt(disk[d].key).n
                   /\ parse_job_dt(disk[d].scheduled_for)
                         = LastAttempt(disk[d].key).due
          /\ (pc = "loop" /\ LostAccept(mem[idx].key)) => Dispatchable(mem[idx]))
    /\ [][ (pc = "loop" /\ LostAccept(mem[idx].key) /\ pc' \notin {"loop", "crashed"})
              => /\ Len(log') = Len(log) + 1
                 /\ log'[Len(log')].key = mem[idx].key
         ]_vars

\* C13 witness: the server accepted the same job's message twice, the
\* process having died after the first acceptance and before the save.
C13_Witness ==
    \E i, j \in 1..Len(log) :
        /\ i < j
        /\ log[i].key = log[j].key
        /\ log[i].gw = "accept" /\ log[j].gw = "accept"
        /\ \E c \in DeathsBeforeSave : crashes[c].n = i

\* C17: every delivery attempt for a job that holds a theme index composes
\* the message with that index, and no step changes a job's theme index.
C17_VariantStable ==
    \A i \in 1..Len(log) :
        \A job \in AllJobs :
            (job.key = log[i].key /\ job.theme_index # NoneIdx)
                => log[i].theme = job.theme_index

\* C18: one run of schedule_only for k >= 1 recipients leaves the stored jobs
\* as they were and in place, followed by k new jobs, one per recipient in
\* order, each pending, never attempted, all with the same parseable
\* scheduled_for, each with the theme index the rotation gives at that moment
\* (the cursor moves on by k); the worker's list and the delivery history are
\* untouched.
C18_Enqueue ==
    [][ nextKey' # nextKey =>
          LET k == nextKey' - nextKey
              n == Len(disk)
              cur == load_templates_state(rr_file)
              N == cfg.themes
          IN  /\ k >= 1
              /\ Len(disk') = n + k
              /\ SubSeq(disk', 1, n) = disk
              /\ \E w \in EnqueueWalls :
                    \A i \in 1..k :
                       /\ disk'[n + i].to = Recipients[i]
                       /\ disk'[n + i].key = nextKey + i - 1
                       /\ disk'[n + i].status = "pending"
                       /\ disk'[n + i].attempts = 0
                       /\ parse_job_dt(disk'[n + i].scheduled_for)
                             = [tz |-> cfg.tz, wall |-> w,
                                off |-> IF cfg.tz THEN ZoneOff ELSE 0]
                       /\ disk'[n + i].theme_index = (cur + i - 1) % N
              /\ load_templates_state(rr_file') = (cur + k) % N
              /\ log' = log
              /\ mem' = mem
      ]_vars

\* C18 witness: two runs for one recipient each; the first job is still in
\* place and the two hold successive theme indices.
C18_Witness ==
    /\ Len(disk) = 2
    /\ log = <<>>
    /\ disk[1].to = "a@x.com" /\ disk[2].to = "a@x.com"
    /\ disk[1].theme_index = 0 /\ disk[2].theme_index = 1
    /\ disk[1].scheduled_for # disk[2].scheduled_for
    /\ load_templates_state(rr_file) = 0

SameJob(jobs, job) == {j \in 1..Len(jobs) : jobs[j].key = job.key}

\* what a step may do to the scheduled_for of a job, old before and new after
ScheduledForStep(old, new) ==
    new.scheduled_for # old.scheduled_for =>
        /\ Len(log') = Len(log) + 1
        /\ log'[Len(log')].key = old.key
        /\ ~log'[Len(log')].ok
        /\ new.attempts = old.attempts + 1
        /\ is_due(parse_job_dt(old.scheduled_for),
                  parse_job_dt(new.scheduled_for)) = "True"

\* C20: a step changes a job's scheduled_for, in the worker's list or in the
\* store, only as part of a failed delivery attempt for that job (the retry
\* policy), and the new value is not earlier than the one it replaces, under
\* the comparison is_due makes.
C20_ScheduledForForward ==
    [][ /\ \A i \in 1..Len(mem) : \A j \in SameJob(mem', mem[i]) :
              ScheduledForStep(mem[i], mem'[j])
        /\ \A i \in 1..Len(disk) : \A j \in SameJob(disk', disk[i]) :
              ScheduledForStep(disk[i], disk'[j])
      ]_vars

\* C20 witness: a job written by hand with a timezone-aware scheduled_for was
\* attempted by a worker whose clock is naive and failed; its scheduled_for
\* is now the naive time of the failure plus the delay.
C20_Witness ==
    \E d \in 1..Len(disk), i \in 1..Len(log) :
        /\ log[i].key = disk[d].key
        /\ log[i].due.tz /\ ~cfg.tz
        /\ disk[d].attempts = 1
        /\ disk[d].status = "pending"
        /\ disk[d].scheduled_for = isoformat(plus_seconds(log[i].at, RetryDelay))
        /\ log[i].due.wall < parse_job_dt(disk[d].scheduled_for).wall

\* C21: in every step the attempts of a job, in the store and in the worker's
\* list, stays the same or grows; what a tick loads is not below what the
\* store holds.
C21_AttemptsMonotone ==
    [][ /\ \A i \in 1..Len(disk) : \A j \in SameJob(disk', disk[i]) :
              disk'[j].attempts >= disk[i].attempts
        /\ \A i \in 1..Len(mem) : \A j \in SameJob(mem', mem[i]) :
              mem'[j].attempts >= mem[i].attempts
        /\ \A i \in 1..Len(disk) : \A j \in SameJob(mem', disk[i]) :
              mem'[j].attempts >= disk[i].attempts
      ]_vars

\* C21 witness: a job failed once and was sent at the next attempt, in a
\* later tick; it still shows the failure.
C21_Witness ==
    \E d \in 1..Len(disk), i, j \in 1..Len(log) :
        /\ Consecutive(i, j)
        /\ log[i].key = disk[d].key
        /\ ~log[i].ok /\ log[j].ok
        /\ log[i].tick < log[j].tick
        /\ disk[d].status = "sent"
        /\ disk[d].attempts = 1

\* the failed delivery attempts made for the job with key k
FailuresOf(k) == {i \in AttemptsOf(log, k) : ~log[i].ok}

\* C22: the attempts of every job equals the number of delivery attempts made
\* for it, successful or failed.
C22_AttemptsCountAll ==
    \A job \in AllJobs : job.attempts = Cardinality(AttemptsOf(log, job.key))

\* C22 as the code has it: the attempts of every job equals the number of
\* failed delivery attempts made for it; a successful attempt is not counted.
C22_AttemptsCountFailures ==
    \A job \in AllJobs : job.attempts = Cardinality(FailuresOf(job.key))

\* C22 witness: a job that failed once and was then sent, two attempts made
\* and attempts 1.
C22_Witness ==
    \E d \in 1..Len(disk) :
        /\ disk[d].status = "sent"
        /\ disk[d].attempts = 1
        /\ Cardinality(AttemptsOf(log, disk[d].key)) = 2
        /\ Cardinality(FailuresOf(disk[d].key)) = 1

\* C23: every sent job has sent_at and every failed job has failed_at, in the
\* store and in the worker's list (the timestamp is written in the step that
\* writes the status).
C23_TransitionTimestamps ==
    \A job \in AllJobs :
        /\ job.status = "sent" => job.sent_at # Absent
        /\ job.status = "failed" => job.failed_at # Absent

\* C24: a step in which a write of the queue file fails leaves the worker
\* running, with its list of jobs as it was.
C24_SaveErrorContained ==
    [][ Len(crashes') > Len(crashes) => (pc' # "crashed" /\ mem' = mem) ]_vars

\* the jobs of a list other than the one with key k
OtherJobs(jobs, k) == SelectSeq(jobs, LAMBDA j : j.key # k)

\* the jobs of the store other than the one with key k, whatever their order
\* (the worker saves the list as it sorted it)
OtherSet(jobs, k) == {jobs[i] : i \in {j \in 1..Len(jobs) : jobs[j].key # k}}

C27_NoVariant ==
    \A i \in 1..Len(th_calls) :
        (~cfg.enabled \/ cfg.themes = 0) =>
            /\ th_calls[i].idx = NoneIdx
            /\ ~th_calls[i].picked
            /\ th_calls[i].after = th_calls[i].before

\* C27 witness: themes disabled with two themes listed under round robin; a
\* call given the override 1 and a call given none both returned no index,
\* and the cursor is where it was.
C27_Witness ==
    /\ ~cfg.enabled /\ cfg.themes = 2 /\ cfg.strategy = "round_robin"
    /\ Len(th_calls) = 2
    /\ th_calls[1].override = 1 /\ th_calls[2].override = NoneIdx
    /\ th_calls[1].idx = NoneIdx /\ th_calls[2].idx = NoneIdx
    /\ th_calls[1].before = [kind |-> "dict", rr_next |-> 1]
    /\ rr_file = [kind |-> "dict", rr_next |-> 1]

\* C28: after every save of the queue file a load reads back the list that
\* was saved, the same jobs in the same order with every field as it was: the
\* worker's list after an attempt and at the end of a tick, and the jobs
\* schedule_only had loaded before it added its own.
C28_RoundTrip ==
    [][ /\ (pc = "loop" /\ Len(log') = Len(log) + 1) => disk' = mem'
        /\ (pc = "end" /\ pc' = "sleep" /\ changed) => disk' = mem
        /\ nextKey' # nextKey => SubSeq(disk', 1, Len(disk)) = disk
      ]_vars

\* C28 witness: a tick has saved and the store reads back as the worker's
\* list: a job sent with its sent_at and a job failed by exhaustion with its
\* failed_at, attempts and last_error; the sent job has no theme index.
C28_Witness ==
    /\ pc = "end"
    /\ disk = mem
    /\ \E d \in 1..Len(disk) :
          /\ disk[d].status = "sent"
          /\ disk[d].sent_at # Absent
          /\ disk[d].theme_index = NoneIdx
    /\ \E d \in 1..Len(disk) :
          /\ disk[d].status = "failed"
          /\ disk[d].failed_at # Absent
          /\ disk[d].attempts = MaxRetries + 1
          /\ disk[d].last_error = "SMTPException"

\* C29: with no queue file, the load at the start of a tick gives an empty
\* list without failing, the tick makes no delivery attempt and ends with the
\* file still missing; schedule_only loads an empty list as well and writes
\* a store that holds its new jobs only.
C29_MissingStore ==
    /\ []((~stored /\ pc \notin {"sleep", "crashed"}) =>
             (pc = "end" /\ mem = <<>> /\ ~changed))
    /\ [][ ~stored =>
              /\ tickNo' # tickNo => (pc' = "end" /\ mem' = <<>>)
              /\ pc \notin {"sleep", "crashed"} =>
                    (log' = log /\ ~stored' /\ disk' = disk /\ pc' = "sleep")
              /\ nextKey' # nextKey =>
                    (stored' /\ Len(disk') = nextKey' - nextKey
                       /\ \A i \in 1..Len(disk') : disk'[i].status = "pending")
       ]_vars

\* C29 witness: two ticks have run to their end with no queue file, nothing
\* was sent and there is still no file.
C29_Witness ==
    /\ ~stored
    /\ tickNo = 2
    /\ pc = "sleep"
    /\ log = <<>>
    /\ disk = <<>>

\* the keys of the jobs of a list
Keys(jobs) == {jobs[i].key : i \in 1..Len(jobs)}

\* C30: every step leaves in the store every job it held, each once, with
\* its recipient and theme index as they were; a step of the worker adds no
\* job to the store and changes no recipient or theme index in its own list;
\* only schedule_only adds jobs.
C30_NeverDestroyed ==
    /\ [](Cardinality(Keys(disk)) = Len(disk))
    /\ [][ /\ \A i \in 1..Len(disk) :
                 \E j \in 1..Len(disk') :
                    /\ disk'[j].key = disk[i].key
                    /\ disk'[j].to = disk[i].to
                    /\ disk'[j].theme_index = disk[i].theme_index
           /\ nextKey' = nextKey => Keys(disk') = Keys(disk)
           /\ \A i \in 1..Len(mem) : \A j \in SameJob(mem', mem[i]) :
                 /\ mem'[j].to = mem[i].to
                 /\ mem'[j].theme_index = mem[i].theme_index
           /\ Keys(mem') \subseteq Keys(disk)
       ]_vars

\* C30 witness: both jobs ever created are in the store, the first sent two
\* or more ticks ago, the second still pending.
C30_Witness ==
    /\ Len(disk) = 2
    /\ nextKey = 3
    /\ \E d, e \in 1..Len(disk) :
          /\ disk[d].status = "sent"
          /\ tickNo >= LastAttempt(disk[d].key).tick + 2
          /\ disk[e].key = 2
          /\ disk[e].status = "pending"
          /\ disk[d].key = 1

\* the real time at which the delivery attempt i returned
ReturnedAt(i) == log[i].at.wall - ZoneOff

\* C31: each delivery attempt after the first starts rate_limit_seconds or
\* more after the attempt before it returned, whatever the job, the tick and
\* the outcome of either; and once an attempt is over the worker has slept
\* that long and the store shows the outcome of the attempt.
C31_RateLimit ==
    /\ \A j \in 2..Len(log) : log[j].start >= ReturnedAt(j - 1) + RateLimit
    /\ \A i \in 1..Len(log) :
          /\ log[i].start <= ReturnedAt(i)
          /\ clock >= ReturnedAt(i) + RateLimit
          /\ \E d \in 1..Len(disk) :
                /\ disk[d].key = log[i].key
                /\ log[i].ok => disk[d].status = "sent"
                /\ ~log[i].ok => disk[d].attempts >= log[i].n + 1

\* C31 witness: in one tick an attempt failed after taking some time and the
\* next job was attempted exactly rate_limit_seconds after it returned.
C31_Witness ==
    \E j \in 2..Len(log) :
        /\ log[j].tick = log[j - 1].tick
        /\ ~log[j - 1].ok /\ log[j].ok
        /\ log[j - 1].start < ReturnedAt(j - 1)
        /\ log[j].start = ReturnedAt(j - 1) + RateLimit

\* C32: the step of a tick that reaches a valid pending job not yet due at
\* the tick's now_dt writes nothing and attempts nothing; and the next tick
\* has in its list, as stored, every job the tick before it passed in that
\* way.
C32_NotDueReconsidered ==
    /\ [][ (pc = "loop" /\ ValidNotDue(mem[idx], now_dt)) =>
              (mem' = mem /\ disk' = disk /\ log' = log /\ idx' = idx + 1
                 /\ pc' \in {"loop", "end"}) ]_vars
    /\ [][ tickNo' = tickNo + 1 =>
              \A k \in skipped :
                 \E m \in 1..Len(mem'), d \in 1..Len(disk) :
                    mem'[m].key = k /\ mem'[m] = disk[d] ]_vars

\* C33: once a call of send_job is over, returned or raised, cfg["email"]
\* holds for subject and html_template what it held before the call.
C33_OverridesDoNotLeak ==
    \A i \in 1..Len(sj_calls) : sj_calls[i].after = sj_calls[i].before

\* C34: whatever the rotation state file holds, a round-robin selection does
\* not raise, and on a file that holds no numeric cursor it selects index 0
\* and leaves the cursor at 1 modulo the number of themes.
C34_StateFileTolerated ==
    \A i \in 1..Len(th_calls) :
       /\ ~th_calls[i].raised
       /\ th_calls[i].before.kind # "dict" =>
             /\ th_calls[i].idx = 0
             /\ th_calls[i].after = save_templates_state(1 % cfg.themes)

\* no job of the store is pending
NoPending == \A i \in 1..Len(disk) : ~IsPending(disk[i])

\* the worker is alive and the time the model covers is used up
OutOfTime == pc # "crashed" /\ clock >= MaxTime

\* C35: a worker that keeps ticking brings every pending job of the store
\* to sent or failed: again and again the store holds no pending job, as
\* long as the time covered lasts.
C35_Progress == []<>(NoPending \/ OutOfTime)

\* the attempts of the job with key k in which the server took the message
Delivered(k) ==
    { i \in 1..Len(log) : log[i].key = k /\ log[i].gw \in {"accept", "unlogged"} }

\* C36: with no process killed, the server takes at most one message for a
\* job, and no attempt is made for a job after one in which the server took
\* its message.
C36_AtMostOnce ==
    \A k \in 1..(nextKey - 1) :
       /\ Cardinality(Delivered(k)) <= 1
       /\ \A i \in Delivered(k), j \in 1..Len(log) : log[j].key = k => j <= i

\* C37: the attempts of one job lie in different ticks, each in a later
\* tick than the one before, also when retry_delay_seconds is 0.
C37_OneAttemptPerTick ==
    \A i, j \in 1..Len(log) :
       (i < j /\ log[i].key = log[j].key) => log[i].tick < log[j].tick

\* with no delay, a job that failed in the tick before and again in this
\* one is still pending while the tick goes on, the time it was put off to
\* having passed already
C37_Witness ==
    /\ cfg.retry_delay = 0
    /\ pc \in {"loop", "end"}
    /\ \E i, j \in 1..Len(log), m \in 1..Len(mem) :
          /\ log[i].key = log[j].key
          /\ log[j].tick = log[i].tick + 1
          /\ log[j].tick = tickNo
          /\ mem[m].key = log[j].key
          /\ IsPending(mem[m])
          /\ m < idx
          /\ is_due(parse_job_dt(mem[m].scheduled_for), now_local(cfg, clock)) = "True"

\* the step is the save of schedule_only
IsEnqueueSave == op.pc = "building" /\ op'.pc = "idle" /\ op'.last = "saved"

\* C38: nothing keeps a save from overwriting what the other process wrote
\* since the saver's load: after a save of the worker the store holds the
\* worker's list, after a save of schedule_only it holds the list that call
\* loaded followed by its new jobs, whatever the store held just before.
C38_LostUpdate ==
    [][ disk' # disk =>
          IF IsEnqueueSave
          THEN disk' = op.jobs
          ELSE disk' = mem' \/ disk' = mem ]_vars

\* a job the worker sent and saved as sent is pending again after a save of
\* schedule_only, and a job schedule_only had saved is gone from the store
\* after a save of the worker
C38_Witness ==
    /\ op.reverted # {}
    /\ \E k \in 1..(nextKey - 1) : k \notin Keys(disk)
    /\ \E i \in 1..Len(log) : log[i].ok /\ log[i].key \in op.reverted

\* C39: schedule_only writes the store in its last step only, with the jobs
\* of every recipient: a run that ends earlier leaves the store as it was,
\* while each pass of its loop has moved the rotation cursor on by one.
C39_EnqueueAllOrNothing ==
    /\ [][ (op' # op /\ ~IsEnqueueSave) => (disk' = disk /\ stored' = stored) ]_vars
    /\ [][ IsEnqueueSave =>
             /\ op.n = op.k
             /\ Len(disk') = op.base + op.k
             /\ \A i \in 1..op.k : disk'[op.base + i].to = Recipients[i] ]_vars
    /\ [][ op'.n = op.n + 1 =>
             rr_file' = save_templates_state(
                           (load_templates_state(rr_file) + 1) % cfg.themes) ]_vars

\* a run of schedule_only that ended after its first recipient and before
\* its save, no worker having run: the store holds none of its jobs and the
\* cursor stands one further
C39_Witness ==
    /\ op.pc = "idle"
    /\ op.last = "died"
    /\ op.n = 1
    /\ tickNo = 0
    /\ \A i \in 1..Len(disk) : disk[i].key < nextKey
    /\ op.jobs[Len(op.jobs)].key = nextKey
    /\ rr_file # op.file0
    /\ load_templates_state(rr_file) = (load_templates_state(op.file0) + 1) % cfg.themes

\* the value is an integer that indexes the list of themes
IsIndex(v) == v.type = "int" /\ 0 <= v.val /\ v.val < cfg.themes

\* the value is one int() turns into an index of the list of themes
TurnsIntoIndex(v) ==
    /\ v.type \in {"int", "str", "float"}
    /\ 0 <= v.val /\ v.val < cfg.themes

\* what the configured strategy does in call i under round_robin: the index
\* is the cursor, and the cursor is saved one further
RotatedAt(i) ==
    cfg.strategy = "round_robin" =>
       /\ th_calls[i].idx = load_templates_state(th_calls[i].before) % cfg.themes
       /\ th_calls[i].after =
             save_templates_state((th_calls[i].idx + 1) % cfg.themes)

\* C40 as stated: an override that is absent, not an integer, or an integer
\* outside [0, N) makes resolve_theme fall back to the strategy, which under
\* round_robin moves the cursor on.
C40_FallbackUnlessIndex ==
    \A i \in 1..Len(th_calls) :
       ~IsIndex(th_calls[i].override) => (th_calls[i].picked /\ RotatedAt(i))

\* C40 amended: resolve_theme falls back to the strategy exactly when the
\* override is absent, int() raises on it, or int() of it lies outside
\* [0, N); a string of digits or a number with a fraction is converted and
\* used as the index.  Under round_robin the fallback moves the cursor on.
C40_FallbackUnlessConvertible ==
    \A i \in 1..Len(th_calls) :
       IF TurnsIntoIndex(th_calls[i].override)
       THEN /\ ~th_calls[i].picked
            /\ th_calls[i].idx = th_calls[i].override.val
            /\ th_calls[i].after = th_calls[i].before
       ELSE th_calls[i].picked /\ RotatedAt(i)

\* two attempts in a row for a job whose theme_index int() does not take,
\* under round_robin over two themes or more: composed with different themes
C40_Witness ==
    /\ cfg.strategy = "round_robin"
    /\ Len(th_calls) >= 2
    /\ th_calls[1].override.type = "junk"
    /\ th_calls[2].override = th_calls[1].override
    /\ th_calls[1].picked /\ th_calls[2].picked
    /\ th_calls[1].idx # th_calls[2].idx
    /\ th_calls[2].after # th_calls[1].before

====
